---- MODULE Spec2Model ----
(***************************************************************************)
(* Model of atomate/lammps/workflows/core.py: the three workflow           *)
(* assemblers get_wf_from_input_template, get_packmol_wf and get_wf.       *)
(*                                                                         *)
(* The caller owns a handful of mutable mapping objects (Python dicts),    *)
(* held in `heap`.  Every call of an assembler is one step: it may mutate  *)
(* the caller's mappings and it ends either by returning a Workflow or by  *)
(* raising.  `before` is the caller's view of its mappings just before     *)
(* the last call, `call` the last call with its arguments, `result` how    *)
(* the call ended.                                                         *)
(***************************************************************************)
EXTENDS Integers, Sequences, FiniteSets, TLC

VARIABLES heap, before, call, result

vars == <<heap, before, call, result>>

(* ------------------------------ bounds -------------------------------- *)

\* longest list of Run Configurations passed to get_wf_from_input_template
MaxLen == 2
\* longest packing configuration passed to get_packmol_wf
MaxPack == 2

(* --------------------------- Python values ---------------------------- *)

\* marks a key that is not in a dict
Absent == "<absent>"
\* Python's None
None == "None"

\* the mapping objects the caller owns, by identity
Objs == {"settings_a", "settings_b"}

\* the keys a Run Configuration may carry in the model: the two the code
\* looks at and one it never looks at
Keys == {"data_file", "log_file", "temperature"}

KeyValues(k) ==
    CASE k = "data_file" -> {Absent, "a.data"}
      [] k = "log_file" -> {Absent, "my.log"}
      [] OTHER -> {Absent, "300"}

Dicts == {d \in [Keys -> {Absent, "a.data", "my.log", "300"}] :
             \A k \in Keys : d[k] \in KeyValues(k)}

EmptyDict == [k \in Keys |-> Absent]

\* the dict created by the literal {} of `user_settings or {}`; it is not
\* one of the caller's objects
Fresh == "{}"

NoneArg == [kind |-> "None", ref |-> Fresh, items |-> <<>>]
DictArg(o) == [kind |-> "dict", ref |-> o, items |-> <<>>]
ListArg(s) == [kind |-> "list", ref |-> Fresh, items |-> s]

SeqsUpTo(S, n) == UNION {[1..m -> S] : m \in 0..n}

SettingsArgs ==
    {NoneArg} \cup {DictArg(o) : o \in Objs}
              \cup {ListArg(s) : s \in SeqsUpTo(Objs, MaxLen)}

\* variant of Truthy: only None and the empty list are falsy, a dict is
\* always truthy
TruthyDictAlways(v, h) ==
    CASE v.kind = "None" -> FALSE
      [] v.kind = "dict" -> TRUE
      [] OTHER -> Len(v.items) > 0

\* Python truth value of None, a dict or a list
Truthy(v, h) ==
    CASE v.kind = "None" -> FALSE
      [] v.kind = "dict" -> \E k \in Keys : h[v.ref][k] # Absent
      [] OTHER -> Len(v.items) > 0

\* what the caller can see of a heap that also holds the fresh dict
CallerView(h) == [o \in Objs |-> h[o]]

NoWf == [fws |-> <<>>, name |-> None]
NoCall == [op |-> "none"]
NoResult == [status |-> "none", exc |-> None, wf |-> NoWf]

Returned(wf) == [status |-> "returned", exc |-> None, wf |-> wf]
Raised(exc) == [status |-> "raised", exc |-> exc, wf |-> NoWf]

\* Workflow(fws, name=name)
Workflow(fws, name) == [fws |-> fws, name |-> name]

(* -------------------- get_wf_from_input_template ---------------------- *)

TemplateArgs ==
    [input_template_file : {"in.template"},
     user_settings : SettingsArgs,
     lammps_data : {None},
     input_filename : {"lammps.in"},
     is_forcefield : {FALSE},
     lammps_cmd : {"lammps"},
     dump_filenames : {None},
     db_file : {None},
     name : {"LAMMPS template Wflow", "my wf"}]

\* variant of OrEmptyDict: only None is replaced by {}
OrEmptyDictNoneOnly(v, h) ==
    IF v.kind # "None" THEN v ELSE DictArg(Fresh)

\* user_settings = user_settings or {}
\* (a falsy argument, that is None, an empty dict or an empty list, is
\* replaced by a new empty dict)
OrEmptyDict(v, h) ==
    IF Truthy(v, h) THEN v ELSE DictArg(Fresh)

\* user_settings = user_settings if isinstance(user_settings, list)
\*                 else [user_settings]
AsList(v) ==
    IF v.kind = "list" THEN v.items ELSE <<v.ref>>

\* settings.get("data_file", "lammps.data")
GetDataFile(d) ==
    IF d["data_file"] # Absent THEN d["data_file"] ELSE "lammps.data"

\* LammpsInputSet.from_file(wf_name, input_template_file, user_settings=settings, ...)
\* seen as the arguments it is given; `settings` is the mapping object itself
InputSetFromFile(a, settings, data_filename) ==
    [wf_name |-> a.name,
     input_template_file |-> a.input_template_file,
     user_settings |-> settings,
     lammps_data |-> a.lammps_data,
     data_filename |-> data_filename,
     is_forcefield |-> a.is_forcefield]

\* the LammpsFW(...) call of the loop, seen as the arguments it is given;
\* no parents argument is passed
TemplateFW(a, lammps_input_set, data_filename, log_filename) ==
    [fw |-> "LammpsFW",
     lammps_input_set |-> lammps_input_set,
     input_filename |-> a.input_filename,
     data_filename |-> data_filename,
     lammps_cmd |-> a.lammps_cmd,
     db_file |-> a.db_file,
     log_filename |-> log_filename,
     dump_filename |-> a.dump_filenames,
     parents |-> <<>>]

\* variant of TemplateLoopBody: the new node is put in front of fws
TemplateLoopBodyPrepend(st, settings, a) ==
    LET data_filename == GetDataFile(st.heap[settings])
        h1 == IF st.heap[settings]["log_file"] = Absent
              THEN [st.heap EXCEPT ![settings]["log_file"] = "log.lammps"]
              ELSE st.heap
        lis == InputSetFromFile(a, settings, data_filename)
    IN [heap |-> h1,
        fws |-> <<TemplateFW(a, lis, data_filename, h1[settings]["log_file"])>>
                \o st.fws]

\* variant of TemplateLoopBody: the log file name is defaulted with
\* settings.get("log_file", "log.lammps"), the mapping is left alone
TemplateLoopBodyNoInject(st, settings, a) ==
    LET data_filename == GetDataFile(st.heap[settings])
        log_filename == IF st.heap[settings]["log_file"] = Absent
                        THEN "log.lammps"
                        ELSE st.heap[settings]["log_file"]
        lis == InputSetFromFile(a, settings, data_filename)
    IN [heap |-> st.heap,
        fws |-> Append(st.fws, TemplateFW(a, lis, data_filename, log_filename))]

\* variant of TemplateLoopBody: settings["log_file"] is written
\* unconditionally
TemplateLoopBodyOverwrite(st, settings, a) ==
    LET data_filename == GetDataFile(st.heap[settings])
        h1 == [st.heap EXCEPT ![settings]["log_file"] = "log.lammps"]
        lis == InputSetFromFile(a, settings, data_filename)
    IN [heap |-> h1,
        fws |-> Append(st.fws,
                       TemplateFW(a, lis, data_filename, h1[settings]["log_file"]))]

\* one iteration of `for settings in user_settings:`, on the heap and the
\* list fws built so far
TemplateLoopBody(st, settings, a) ==
    LET data_filename == GetDataFile(st.heap[settings])
        h1 == IF st.heap[settings]["log_file"] = Absent
              THEN [st.heap EXCEPT ![settings]["log_file"] = "log.lammps"]
              ELSE st.heap
        lis == InputSetFromFile(a, settings, data_filename)
    IN [heap |-> h1,
        fws |-> Append(st.fws,
                       TemplateFW(a, lis, data_filename, h1[settings]["log_file"]))]

RECURSIVE TemplateLoop(_, _, _)
\* for settings in user_settings: ...
TemplateLoop(list, st, a) ==
    IF list = <<>> THEN st
    ELSE TemplateLoop(Tail(list), TemplateLoopBody(st, Head(list), a), a)

\* the whole function body: the heap it leaves and how it ends
get_wf_from_input_template(h, a) ==
    LET h0 == [o \in Objs \cup {Fresh} |-> IF o = Fresh THEN EmptyDict ELSE h[o]]
        user_settings == AsList(OrEmptyDict(a.user_settings, h0))
        st == TemplateLoop(user_settings, [heap |-> h0, fws |-> <<>>], a)
    IN [heap |-> CallerView(st.heap),
        result |-> Returned(Workflow(st.fws, a.name))]

(* --------------------------- get_packmol_wf --------------------------- *)

FileTypes == {"xyz", "pdb"}

\* an entry of packing_config: a mapping that carries "number"
PackingEntries == [number : {3, 10}, inside_box : {"box"}]

PackmolArgs ==
    [input_file : {"in.lammps"},
     user_settings : {"settings_a"},
     molecules : {<<"mol1", "mol2">>},
     packing_config : SeqsUpTo(PackingEntries, MaxPack),
     force_field : {"ff1", "ff2"},
     box_size : {"box"},
     site_property : {None},
     tolerance : {"2.0"},
     filetype : FileTypes,
     control_params : {None},
     lammps_cmd : {"lammps"},
     dump_filenames : {None},
     db_file : {None},
     name : {"LAMMPS packmol Wflow"}]

\* the names of the signature of get_packmol_wf
PackmolParams ==
    {"input_file", "user_settings", "molecules", "packing_config",
     "force_field", "box_size", "site_property", "tolerance", "filetype",
     "control_params", "lammps_cmd", "dump_filenames", "db_file", "name"}

\* the names get_packmol_wf assigns before it builds the second node
PackmolLocals == {"packmol_output_file", "mols_number", "fw_packmol"}

\* the names the module binds: its imports and its definitions
ModuleGlobals ==
    {"division", "print_function", "unicode_literals", "absolute_import",
     "Workflow", "LammpsInputSet", "LammpsFW", "PackmolFW",
     "LammpsForceFieldFW", "__author__", "__email__",
     "get_wf_from_input_template", "get_packmol_wf", "get_wf"}

\* whether reading the name n inside get_packmol_wf finds a binding
\* (otherwise Python raises NameError)
PackmolNameBound(n) == n \in PackmolParams \cup PackmolLocals \cup ModuleGlobals

\* packmol_output_file = "packed.{}".format(filetype)
PackmolOutputFile(filetype) == "packed." \o filetype

\* mols_number = [mol_config["number"] for mol_config in packing_config]
MolsNumber(packing_config) ==
    [i \in 1..Len(packing_config) |-> packing_config[i]["number"]]

\* fw_packmol = PackmolFW(...),
\* the trailing comma makes fw_packmol a one-element tuple holding the node
FwPackmol(a) ==
    <<[fw |-> "PackmolFW",
       molecules |-> a.molecules,
       packing_config |-> a.packing_config,
       tolerance |-> a.tolerance,
       filetype |-> a.filetype,
       control_params |-> a.control_params,
       copy_to_current_on_exit |-> TRUE,
       output_file |-> PackmolOutputFile(a.filetype),
       site_property |-> a.site_property,
       parents |-> <<>>]>>

\* fw_lammps = LammpsForceFieldFW(...), seen as the arguments it is given;
\* its fifth argument is the value of the name `forcefield`
FwLammps(a, fw_packmol, forcefield) ==
    [fw |-> "LammpsForceFieldFW",
     input_file |-> a.input_file,
     lammps_data |-> PackmolOutputFile(a.filetype),
     molecules |-> a.molecules,
     mols_number |-> MolsNumber(a.packing_config),
     forcefield |-> forcefield,
     user_settings |-> a.user_settings,
     site_property |-> a.site_property,
     input_filename |-> "lammps.in",
     lammps_cmd |-> a.lammps_cmd,
     db_file |-> a.db_file,
     parents |-> <<fw_packmol>>,
     log_filename |-> "lammps.log",
     dump_filename |-> a.dump_filenames]

\* the whole function body: the first node is built, then the arguments of
\* the second are evaluated; `forcefield` is no parameter, no local and no
\* module name, so the call ends there with NameError
get_packmol_wf(a) ==
    LET fw_packmol == FwPackmol(a)
    IN IF PackmolNameBound("forcefield")
       THEN Returned(Workflow(<<fw_packmol, FwLammps(a, fw_packmol, a.force_field)>>,
                              "unnamed WF"))
       ELSE Raised("NameError")

(* ------------------------------- get_wf ------------------------------- *)

\* every argument given
GetWfAllGiven ==
    [name |-> "raw wf", lammps_input_set |-> "input set",
     input_filename |-> "lammps.in", data_filename |-> "b.data",
     lammps_cmd |-> "lammps", db_file |-> "db.json",
     log_filename |-> "raw.log", dump_filenames |-> "dump.1"]

\* every argument empty or None
GetWfAllEmpty ==
    [name |-> "", lammps_input_set |-> None,
     input_filename |-> "", data_filename |-> None,
     lammps_cmd |-> "", db_file |-> None,
     log_filename |-> None, dump_filenames |-> None]

\* the two above, and each with one argument taken from the other
GetWfArgs ==
    {GetWfAllGiven, GetWfAllEmpty}
    \cup {[GetWfAllGiven EXCEPT ![f] = GetWfAllEmpty[f]] : f \in DOMAIN GetWfAllGiven}
    \cup {[GetWfAllEmpty EXCEPT ![f] = GetWfAllGiven[f]] : f \in DOMAIN GetWfAllGiven}

\* variant of get_wf: an empty or None data_filename and log_filename are
\* defaulted as get_wf_from_input_template defaults them
get_wf_defaulting(a) ==
    Returned(Workflow(
        <<[fw |-> "LammpsFW",
           lammps_input_set |-> a.lammps_input_set,
           input_filename |-> a.input_filename,
           data_filename |-> IF a.data_filename = None THEN "lammps.data"
                             ELSE a.data_filename,
           lammps_cmd |-> a.lammps_cmd,
           db_file |-> a.db_file,
           log_filename |-> IF a.log_filename = None THEN "log.lammps"
                            ELSE a.log_filename,
           dump_filename |-> a.dump_filenames,
           parents |-> <<>>]>>,
        a.name))

\* the whole function body: one LammpsFW built from the arguments (no
\* parents argument is passed), wrapped in a Workflow named `name`
get_wf(a) ==
    Returned(Workflow(
        <<[fw |-> "LammpsFW",
           lammps_input_set |-> a.lammps_input_set,
           input_filename |-> a.input_filename,
           data_filename |-> a.data_filename,
           lammps_cmd |-> a.lammps_cmd,
           db_file |-> a.db_file,
           log_filename |-> a.log_filename,
           dump_filename |-> a.dump_filenames,
           parents |-> <<>>]>>,
        a.name))

(* ----------------------------- the calls ------------------------------ *)

\* the caller's mappings before any call
Init ==
    /\ heap \in [Objs -> Dicts]
    /\ before = heap
    /\ call = NoCall
    /\ result = NoResult

\* the caller calls get_wf_from_input_template
CallTemplate ==
    \E a \in TemplateArgs :
        LET r == get_wf_from_input_template(heap, a)
        IN /\ before' = heap
           /\ heap' = r.heap
           /\ call' = [op |-> "get_wf_from_input_template", args |-> a]
           /\ result' = r.result

\* the caller calls get_packmol_wf
CallPackmol ==
    \E a \in PackmolArgs :
        /\ before' = heap
        /\ heap' = heap
        /\ call' = [op |-> "get_packmol_wf", args |-> a]
        /\ result' = get_packmol_wf(a)

\* the caller calls get_wf
CallGetWf ==
    \E a \in GetWfArgs :
        /\ before' = heap
        /\ heap' = heap
        /\ call' = [op |-> "get_wf", args |-> a]
        /\ result' = get_wf(a)

Next == CallTemplate \/ CallPackmol \/ CallGetWf

Spec == Init /\ [][Next]_vars

(* ------------------------------ claims -------------------------------- *)

IsTemplate == call.op = "get_wf_from_input_template"
IsPackmol == call.op = "get_packmol_wf"
IsGetWf == call.op = "get_wf"

\* the caller's mappings handed to the last get_wf_from_input_template
\* call, in order: the single mapping, or the elements of the list
Supplied ==
    CASE call.args.user_settings.kind = "dict" -> <<call.args.user_settings.ref>>
      [] call.args.user_settings.kind = "list" -> call.args.user_settings.items
      [] OTHER -> <<>>

\* the last call was handed an empty mapping directly, not in a list
DirectEmpty ==
    /\ call.args.user_settings.kind = "dict"
    /\ before[call.args.user_settings.ref] = EmptyDict

\* C1: get_wf_from_input_template called with a non-empty list of N Run
\* Configurations returns a graph of exactly N nodes, the i-th built from
\* the i-th configuration, none of them with a parent.
C1_OneNodePerConfigInOrder ==
    (IsTemplate /\ call.args.user_settings.kind = "list"
                /\ Len(call.args.user_settings.items) > 0) =>
        LET items == call.args.user_settings.items
            fws == result.wf.fws
        IN /\ result.status = "returned"
           /\ Len(fws) = Len(items)
           /\ \A i \in 1..Len(items) :
                 /\ fws[i].parents = <<>>
                 /\ fws[i].lammps_input_set.user_settings = items[i]

\* a call with a list of two different configurations has returned
C1_Witness ==
    /\ IsTemplate
    /\ call.args.user_settings.kind = "list"
    /\ Len(call.args.user_settings.items) = 2
    /\ call.args.user_settings.items[1] # call.args.user_settings.items[2]
    /\ result.status = "returned"
    /\ Len(result.wf.fws) = 2

\* C2 (as claimed): get_packmol_wf always returns a graph of exactly two
\* nodes, a packing node without parents and a force-field node whose only
\* parent is that packing node, the first member of the graph.
C2_Original ==
    IsPackmol =>
        /\ result.status = "returned"
        /\ Len(result.wf.fws) = 2
        /\ result.wf.fws[1].fw = "PackmolFW"
        /\ result.wf.fws[1].parents = <<>>
        /\ result.wf.fws[2].fw = "LammpsForceFieldFW"
        /\ result.wf.fws[2].parents = <<result.wf.fws[1]>>

\* C3 (as claimed): every mapping handed to get_wf_from_input_template,
\* directly or in a list, that lacked "data_file" gives a node with data
\* filename "lammps.data", and one that lacked "log_file" carries
\* "log_file" = "log.lammps" after the call and gives a node with log
\* filename "log.lammps".
C3_Original ==
    IsTemplate =>
        \A i \in 1..Len(Supplied) :
            LET o == Supplied[i]
                fws == result.wf.fws
            IN /\ result.status = "returned"
               /\ Len(fws) >= i
               /\ before[o]["data_file"] = Absent =>
                      fws[i].data_filename = "lammps.data"
               /\ before[o]["log_file"] = Absent =>
                      /\ heap[o]["log_file"] = "log.lammps"
                      /\ fws[i].log_filename = "log.lammps"

\* C3 (amended): as claimed for every mapping handed over in a list and
\* for every non-empty mapping handed over directly; an empty mapping
\* handed over directly is left empty, while the node still gets
\* "lammps.data" and "log.lammps".
C3_Amended ==
    IsTemplate =>
        \A i \in 1..Len(Supplied) :
            LET o == Supplied[i]
                fws == result.wf.fws
            IN /\ result.status = "returned"
               /\ Len(fws) >= i
               /\ before[o]["data_file"] = Absent =>
                      fws[i].data_filename = "lammps.data"
               /\ before[o]["log_file"] = Absent =>
                      /\ fws[i].log_filename = "log.lammps"
                      /\ IF DirectEmpty
                         THEN heap[o] = EmptyDict
                         ELSE heap[o]["log_file"] = "log.lammps"

\* a mapping that lacked both keys was handed over and now carries the
\* default log file name
C3_Witness ==
    /\ IsTemplate
    /\ result.status = "returned"
    /\ \E i \in 1..Len(Supplied) :
          /\ before[Supplied[i]]["data_file"] = Absent
          /\ before[Supplied[i]]["log_file"] = Absent
          /\ heap[Supplied[i]]["log_file"] = "log.lammps"
          /\ result.wf.fws[i].data_filename = "lammps.data"

\* C4 (as claimed): get_wf_from_input_template called with an empty list
\* raises nothing and returns a graph without nodes.
C4_Original ==
    (IsTemplate /\ call.args.user_settings = ListArg(<<>>)) =>
        /\ result.status = "returned"
        /\ Len(result.wf.fws) = 0

\* C4 (amended): get_wf_from_input_template called with an empty list
\* raises nothing and returns a graph of exactly one parentless node, built
\* from a new empty configuration: data filename "lammps.data", log
\* filename "log.lammps"; no mapping of the caller is changed.
C4_Amended ==
    (IsTemplate /\ call.args.user_settings = ListArg(<<>>)) =>
        /\ result.status = "returned"
        /\ Len(result.wf.fws) = 1
        /\ result.wf.fws[1].parents = <<>>
        /\ result.wf.fws[1].data_filename = "lammps.data"
        /\ result.wf.fws[1].log_filename = "log.lammps"
        /\ result.wf.fws[1].lammps_input_set.user_settings \notin Objs
        /\ heap = before

\* a call with an empty list has returned
C4_Witness ==
    /\ IsTemplate
    /\ call.args.user_settings = ListArg(<<>>)
    /\ result.status = "returned"

\* what the last call would have given, from the same mappings, had its
\* single mapping been wrapped in a one-element list
AsOneElementList ==
    get_wf_from_input_template(
        before,
        [call.args EXCEPT !.user_settings = ListArg(<<call.args.user_settings.ref>>)])

\* two results are one-node graphs with the same data filename, log
\* filename and name
SameOneNodeGraph(r1, r2) ==
    /\ r1.status = "returned"
    /\ r2.status = "returned"
    /\ Len(r1.wf.fws) = 1
    /\ Len(r2.wf.fws) = 1
    /\ r1.wf.fws[1].data_filename = r2.wf.fws[1].data_filename
    /\ r1.wf.fws[1].log_filename = r2.wf.fws[1].log_filename
    /\ r1.wf.name = r2.wf.name

\* C5 (as claimed): for every mapping m, get_wf_from_input_template(m)
\* gives the same one-node graph as get_wf_from_input_template([m]) and
\* leaves m with the same contents.
C5_Original ==
    (IsTemplate /\ call.args.user_settings.kind = "dict") =>
        /\ SameOneNodeGraph(result, AsOneElementList.result)
        /\ heap = AsOneElementList.heap

\* C5 (amended): for every mapping m both calls give the same one-node
\* graph; they leave m with the same contents when m is not empty; an
\* empty m is left empty by the direct call, while the call with [m]
\* leaves it carrying "log_file" = "log.lammps".
C5_Amended ==
    (IsTemplate /\ call.args.user_settings.kind = "dict") =>
        /\ SameOneNodeGraph(result, AsOneElementList.result)
        /\ IF DirectEmpty
           THEN /\ heap = before
                /\ AsOneElementList.heap =
                       [before EXCEPT ![call.args.user_settings.ref]["log_file"] =
                                          "log.lammps"]
           ELSE heap = AsOneElementList.heap

\* a non-empty mapping without "log_file" was handed over directly, and
\* the call has changed it
C5_Witness ==
    /\ IsTemplate
    /\ call.args.user_settings.kind = "dict"
    /\ before[call.args.user_settings.ref]["temperature"] # Absent
    /\ before[call.args.user_settings.ref]["log_file"] = Absent
    /\ heap # before
    /\ result.status = "returned"

\* C6 (as claimed): the force-field node get_packmol_wf builds is handed,
\* as per-molecule counts, the "number" of each packing_config entry, in
\* the same order and of the same length.
C6_Original ==
    IsPackmol =>
        /\ result.status = "returned"
        /\ Len(result.wf.fws) = 2
        /\ Len(result.wf.fws[2].mols_number) = Len(call.args.packing_config)
        /\ \A i \in 1..Len(call.args.packing_config) :
               result.wf.fws[2].mols_number[i] = call.args.packing_config[i]["number"]

\* C7 (as claimed): in get_packmol_wf the packing node's output file and
\* the force-field node's data source are both "packed." followed by the
\* file type.
C7_Original ==
    IsPackmol =>
        /\ result.status = "returned"
        /\ Len(result.wf.fws) = 2
        /\ result.wf.fws[1].output_file = "packed." \o call.args.filetype
        /\ result.wf.fws[2].lammps_data = "packed." \o call.args.filetype

\* C8: get_wf always returns a graph of exactly one parentless node,
\* named `name`, whose fields are the arguments as passed, whether given,
\* empty or None.
C8_GetWfVerbatim ==
    IsGetWf =>
        /\ result.status = "returned"
        /\ result.wf.name = call.args.name
        /\ Len(result.wf.fws) = 1
        /\ result.wf.fws[1].parents = <<>>
        /\ result.wf.fws[1].lammps_input_set = call.args.lammps_input_set
        /\ result.wf.fws[1].input_filename = call.args.input_filename
        /\ result.wf.fws[1].data_filename = call.args.data_filename
        /\ result.wf.fws[1].lammps_cmd = call.args.lammps_cmd
        /\ result.wf.fws[1].db_file = call.args.db_file
        /\ result.wf.fws[1].log_filename = call.args.log_filename
        /\ result.wf.fws[1].dump_filename = call.args.dump_filenames

\* get_wf has returned from a call with every argument empty or None
C8_Witness ==
    /\ IsGetWf
    /\ call.args = GetWfAllEmpty
    /\ result.status = "returned"
    /\ Len(result.wf.fws) = 1

\* C9 (as claimed): get_packmol_wf completes without error and its
\* force-field node carries the caller's force_field, input file,
\* molecules, Run Configuration and site property.
C9_Original ==
    IsPackmol =>
        /\ result.status = "returned"
        /\ result.exc = None
        /\ \E i \in 1..Len(result.wf.fws) :
              /\ result.wf.fws[i].fw = "LammpsForceFieldFW"
              /\ result.wf.fws[i].forcefield = call.args.force_field
              /\ result.wf.fws[i].input_file = call.args.input_file
              /\ result.wf.fws[i].molecules = call.args.molecules
              /\ result.wf.fws[i].user_settings = call.args.user_settings
              /\ result.wf.fws[i].site_property = call.args.site_property

\* the only change a get_wf_from_input_template call makes to a mapping of
\* the caller is a "log_file" = "log.lammps" where there was none, and a
\* "log_file" that was there is the node's log filename
C10_Frame ==
    IsTemplate =>
        /\ \A o \in Objs : \A k \in Keys :
               heap[o][k] # before[o][k] =>
                   /\ k = "log_file"
                   /\ before[o][k] = Absent
                   /\ heap[o][k] = "log.lammps"
                   /\ \E i \in 1..Len(Supplied) : Supplied[i] = o
        /\ \A i \in 1..Len(Supplied) :
               before[Supplied[i]]["log_file"] # Absent =>
                   /\ heap[Supplied[i]]["log_file"] = before[Supplied[i]]["log_file"]
                   /\ result.wf.fws[i].log_filename = before[Supplied[i]]["log_file"]

\* a get_wf_from_input_template call that follows one with the same
\* configuration argument changes no mapping and gives as many nodes
C10_SecondCall ==
    (/\ IsTemplate
     /\ call'.op = "get_wf_from_input_template"
     /\ call'.args.user_settings = call.args.user_settings) =>
        /\ heap' = heap
        /\ Len(result'.wf.fws) = Len(result.wf.fws)
        /\ \A i \in 1..Len(result.wf.fws) :
               result'.wf.fws[i].parents = result.wf.fws[i].parents

\* C10: after any sequence of get_wf_from_input_template calls the only
\* change made to a caller's Run Configuration is "log_file" added where it
\* was absent (an existing one is kept and used, "data_file" is never
\* added, nothing else changes), and a second call with the same
\* configuration changes nothing and gives the same graph shape.
C10_OnlyLogFileAdded == [](C10_Frame) /\ [][C10_SecondCall]_vars

\* a second call with a mapping whose "log_file" an earlier call had added
\* has left every mapping as it was
C10_Witness ==
    /\ IsTemplate
    /\ \E i \in 1..Len(Supplied) :
          /\ before[Supplied[i]]["log_file"] = "log.lammps"
          /\ result.wf.fws[i].log_filename = "log.lammps"
    /\ heap = before

====
